---- MODULE Spec2Model ----
(***************************************************************************)
(* Model of src/scr/main.py: the button callback (RPi.GPIO event thread),  *)
(* the task queue, the consumer loop process_tasks (main thread), the      *)
(* vibration actuator and the shutdown path.                               *)
(*                                                                         *)
(* Time is counted in ticks of 100 ms.  A sleep(d) is a timer that must    *)
(* run down before the sleeping thread goes on.  The callback thread is    *)
(* scheduled promptly (its non-sleeping steps take no time and its sleep   *)
(* takes exactly its duration); the consumer may be arbitrarily slow.      *)
(***************************************************************************)
EXTENDS Naturals, Integers, Sequences, FiniteSets, TLC

\* ---------------------------------------------------------------- bounds
MaxPresses == 3        \* falling edges of the button in one run

\* ------------------------------------------- program constants (ticks)
BounceTime == 5        \* bouncetime=500
AckDur     == 2        \* vibrate(0.2)
SuccessDur == 5        \* vibrate(0.5)
FailDur    == 10       \* vibrate(1.0)
PollSleep  == 1        \* sleep(0.1)

VARIABLES
  queue,        \* task_queue: sequence of tasks
  vib,          \* level of VibPin: "LOW" | "HIGH"
  released,     \* GPIO.cleanup() has run
  cbpc,         \* position of the callback thread in button_pressed
  cbTimer,      \* remaining sleep of the callback thread
  cbPress,      \* press the running callback was started for
  sinceAccept,  \* ticks since the last accepted edge (saturates at BounceTime)
  mainpc,       \* position of the main thread
  mainTimer,    \* remaining sleep of the main thread
  task,         \* process_tasks: task
  description,  \* process_tasks: description
  image,        \* captured_image.jpg: press whose capture wrote it (0: none)
  data_url,     \* analyze_image: data_url, as the press whose image it encodes
  intr,         \* KeyboardInterrupt has been delivered
  \* history of the run
  nEdges,       \* falling edges so far (the n-th press has id n)
  sinceEdge,    \* ticks since the last edge (saturates at BounceTime)
  allSpaced,    \* every edge came >= BounceTime after the previous edge
  ignored,      \* ids of edges dropped by the debounce
  enqLog,       \* press ids in the order their tasks were put
  deqLog,       \* press ids in the order their tasks were got
  capLog,       \* press ids in the order capture was attempted
  trace,        \* events of the current cycle
  spoken,       \* speak calls of the current cycle
  playing,      \* presses whose espeak | aplay process is still running
  outcomes      \* how each finished cycle ended, in order

vars == <<queue, vib, released, cbpc, cbTimer, cbPress, sinceAccept, mainpc,
          mainTimer, task, description, image, data_url, intr, nEdges,
          sinceEdge, allSpaced, ignored, enqLog, deqLog, capLog, trace, spoken,
          playing, outcomes>>

cbVars   == <<cbpc, cbTimer, cbPress, sinceAccept>>
histEdge == <<nEdges, sinceEdge, allSpaced, ignored>>
cycleVars == <<task, description, image, data_url, trace, spoken, playing>>

\* ------------------------------------------------------------- strings
DQ == "\""
SQ == "'"
SP == " "

Min(a, b) == IF a < b THEN a ELSE b
Dec(n) == IF n > 0 THEN n - 1 ELSE 0

\* str.replace(ch, ''): every occurrence of ch removed
RECURSIVE replace(_, _)
replace(s, ch) ==
  IF s = <<>> THEN <<>>
  ELSE IF Head(s) = ch THEN replace(Tail(s), ch)
       ELSE <<Head(s)>> \o replace(Tail(s), ch)

RECURSIVE lstrip(_)
lstrip(s) == IF s # <<>> /\ Head(s) = SP THEN lstrip(Tail(s)) ELSE s

RECURSIVE rstrip(_)
rstrip(s) ==
  IF s # <<>> /\ s[Len(s)] = SP THEN rstrip(SubSeq(s, 1, Len(s) - 1)) ELSE s

\* str.strip()
strip(s) == rstrip(lstrip(s))

\* variant: only the double quote is removed
SafeText_doubleOnly(text) == replace(text, DQ)

\* speak: safe_text
SafeText(text) == replace(replace(text, DQ), SQ)

\* --------------------------------------------------- analysis responses
S_quoted == <<"A", DQ, "b", SQ>>
S_padded == <<SP, "A", DQ, "b", SQ, SP>>
S_blank  == <<SP>>
S_empty  == <<>>
S_repr   == <<"R">>          \* str(resp)

Texts == {S_quoted, S_padded, S_blank, S_empty}

Part(ty, tx) == [type |-> ty, text |-> tx]

\* a response with the attribute output_text (None when isNone)
Direct(isNone, tx) ==
  [has_output_text |-> TRUE, none |-> isNone, output_text |-> tx, output |-> <<>>]

\* a response without it: a list of items, each a list of content parts
Nested(items) ==
  [has_output_text |-> FALSE, none |-> FALSE, output_text |-> <<>>, output |-> items]

Responses ==
  {Direct(FALSE, tx) : tx \in Texts} \cup
  {Direct(TRUE, <<>>)} \cup
  {Nested(<<>>),
   Nested(<< <<Part("reasoning", S_blank)>>, <<Part("refusal", S_padded), Part("text", S_quoted)>> >>),
   Nested(<< <<Part("output_text", S_padded), Part("text", S_quoted)>> >>),
   Nested(<< <<Part("image", S_padded)>> >>)}

TextTypes == {"output_text", "text"}

\* inner loop of extract_text: first text-typed part of one item
RECURSIVE FirstInParts(_)
FirstInParts(parts) ==
  IF parts = <<>> THEN [found |-> FALSE, text |-> <<>>]
  ELSE IF Head(parts).type \in TextTypes
       THEN [found |-> TRUE, text |-> strip(Head(parts).text)]
       ELSE FirstInParts(Tail(parts))

\* outer loop of extract_text
RECURSIVE FirstInItems(_)
FirstInItems(items) ==
  IF items = <<>> THEN [found |-> FALSE, text |-> <<>>]
  ELSE IF FirstInParts(Head(items)).found THEN FirstInParts(Head(items))
       ELSE FirstInItems(Tail(items))

extract_text(resp) ==
  IF resp.has_output_text
  THEN IF resp.none THEN S_repr            \* None.strip() raises, caught
       ELSE strip(resp.output_text)
  ELSE IF FirstInItems(resp.output).found
       THEN FirstInItems(resp.output).text
       ELSE S_repr

\* --------------------------------------------------------------- events
Ev(e, d) == [ev |-> e, dur |-> d]

NoTask == [kind |-> "none", press |-> 0]
CaptureTask(n) == [kind |-> "capture", press |-> n]

LoopStates == {"poll", "get", "capture", "encode", "request", "succHigh",
               "succSleep", "speak", "except", "failSleep", "sleep"}
\* positions inside the try block of process_tasks
TryStates == {"capture", "encode", "request", "succHigh", "succSleep", "speak"}

running == mainpc \notin {"exited", "crashed"}

Init ==
  /\ queue = <<>>
  /\ vib = "LOW"
  /\ released = FALSE
  /\ cbpc = "idle"
  /\ cbTimer = 0
  /\ cbPress = 0
  /\ sinceAccept = BounceTime
  /\ mainpc = "poll"
  /\ mainTimer = 0
  /\ task = NoTask
  /\ description = <<>>
  /\ image = 0
  /\ data_url = 0
  /\ intr = FALSE
  /\ nEdges = 0
  /\ sinceEdge = BounceTime
  /\ allSpaced = TRUE
  /\ ignored = {}
  /\ enqLog = <<>>
  /\ deqLog = <<>>
  /\ capLog = <<>>
  /\ trace = <<>>
  /\ spoken = <<>>
  /\ playing = {}
  /\ outcomes = <<>>

\* ------------------------------------------------------ time and button
\* 100 ms pass.  The callback thread is never overdue.
Tick ==
  /\ running
  /\ cbpc = "idle" \/ (cbpc = "ackSleep" /\ cbTimer > 0)
  /\ cbTimer' = Dec(cbTimer)
  /\ mainTimer' = Dec(mainTimer)
  /\ sinceAccept' = Min(sinceAccept + 1, BounceTime)
  /\ sinceEdge' = Min(sinceEdge + 1, BounceTime)
  /\ UNCHANGED <<queue, vib, released, cbpc, cbPress, mainpc, intr, nEdges,
                 allSpaced, ignored, enqLog, deqLog, capLog, outcomes>>
  /\ UNCHANGED cycleVars

\* variant: no bouncetime is given
Debounced_off(elapsed) == TRUE

\* add_event_detect(..., bouncetime=500): an edge is handed to the callback
\* when no edge was accepted before or the last accepted one is at least
\* bouncetime old
Debounced(elapsed) == elapsed >= BounceTime

EdgeHist ==
  /\ nEdges < MaxPresses
  /\ nEdges' = nEdges + 1
  /\ allSpaced' = (allSpaced /\ (nEdges = 0 \/ sinceEdge >= BounceTime))
  /\ sinceEdge' = 0

EdgeAccepted ==
  /\ running
  /\ EdgeHist
  /\ Debounced(sinceAccept) /\ cbpc = "idle"
  /\ sinceAccept' = 0
  /\ cbpc' = "ackHigh"
  /\ cbPress' = nEdges + 1
  /\ UNCHANGED <<queue, vib, released, cbTimer, mainpc, mainTimer, intr,
                 ignored, enqLog, deqLog, capLog, outcomes>>
  /\ UNCHANGED cycleVars

EdgeIgnored ==
  /\ running
  /\ EdgeHist
  /\ ~(Debounced(sinceAccept) /\ cbpc = "idle")
  /\ ignored' = ignored \cup {nEdges + 1}
  /\ UNCHANGED <<queue, vib, released, mainpc, mainTimer, intr,
                 enqLog, deqLog, capLog, outcomes>>
  /\ UNCHANGED cbVars
  /\ UNCHANGED cycleVars

\* ------------------------------------------------------- button_pressed
\* variant: the task is put before the acknowledgment pulse
CbHigh_putFirst ==
  /\ running
  /\ cbpc = "ackHigh"
  /\ vib' = "HIGH"
  /\ cbTimer' = AckDur
  /\ cbpc' = "ackSleep"
  /\ queue' = Append(queue, CaptureTask(cbPress))
  /\ enqLog' = Append(enqLog, cbPress)
  /\ UNCHANGED <<released, cbPress, sinceAccept, mainpc, mainTimer, intr,
                 deqLog, capLog, outcomes>>
  /\ UNCHANGED histEdge
  /\ UNCHANGED cycleVars

\* vibrate(0.2): GPIO.output(VibPin, GPIO.HIGH); sleep starts
CbHigh ==
  /\ running
  /\ cbpc = "ackHigh"
  /\ vib' = "HIGH"
  /\ cbTimer' = AckDur
  /\ cbpc' = "ackSleep"
  /\ UNCHANGED <<queue, released, cbPress, sinceAccept, mainpc, mainTimer,
                 intr, enqLog, deqLog, capLog, outcomes>>
  /\ UNCHANGED histEdge
  /\ UNCHANGED cycleVars

\* variant: vibrate returns without the LOW write
CbLow_stuck ==
  /\ running
  /\ cbpc = "ackSleep" /\ cbTimer = 0
  /\ vib' = vib
  /\ cbpc' = "put"
  /\ UNCHANGED <<queue, released, cbTimer, cbPress, sinceAccept, mainpc,
                 mainTimer, intr, enqLog, deqLog, capLog, outcomes>>
  /\ UNCHANGED histEdge
  /\ UNCHANGED cycleVars

\* vibrate(0.2): sleep over; GPIO.output(VibPin, GPIO.LOW)
CbLow ==
  /\ running
  /\ cbpc = "ackSleep" /\ cbTimer = 0
  /\ vib' = "LOW"
  /\ cbpc' = "put"
  /\ UNCHANGED <<queue, released, cbTimer, cbPress, sinceAccept, mainpc,
                 mainTimer, intr, enqLog, deqLog, capLog, outcomes>>
  /\ UNCHANGED histEdge
  /\ UNCHANGED cycleVars

\* variant: a queue of one slot whose put gives up when the slot is taken
put_full(q, t) == IF Len(q) >= 1 THEN q ELSE Append(q, t)

\* Queue.put: append at the tail
put(q, t) == Append(q, t)

\* variant: the callback takes the picture itself before it puts the task
CbPut_inline ==
  /\ running
  /\ cbpc = "put"
  /\ queue' = put(queue, CaptureTask(cbPress))
  /\ enqLog' = Append(enqLog, cbPress)
  /\ cbpc' = "idle"
  /\ capLog' = Append(capLog, cbPress)
  /\ UNCHANGED <<vib, released, cbTimer, cbPress, sinceAccept, mainpc,
                 mainTimer, intr, deqLog, outcomes>>
  /\ UNCHANGED histEdge
  /\ image' = cbPress
  /\ UNCHANGED <<task, description, data_url, trace, spoken, playing>>

\* task_queue.put("capture")
CbPut ==
  /\ running
  /\ cbpc = "put"
  /\ queue' = put(queue, CaptureTask(cbPress))
  /\ enqLog' = Append(enqLog, cbPress)
  /\ cbpc' = "idle"
  /\ UNCHANGED <<vib, released, cbTimer, cbPress, sinceAccept, mainpc,
                 mainTimer, intr, deqLog, capLog, outcomes>>
  /\ UNCHANGED histEdge
  /\ UNCHANGED cycleVars

\* -------------------------------------------------------- process_tasks
\* what a step of the main thread leaves alone
mainFrame ==
  UNCHANGED <<released, cbpc, cbTimer, cbPress, sinceAccept, intr, nEdges,
              sinceEdge, allSpaced, ignored, enqLog>>

\* variant: get is called without the empty() check
Poll_unchecked ==
  /\ mainpc = "poll"
  /\ mainpc' = "get" /\ mainTimer' = mainTimer
  /\ UNCHANGED <<queue, vib, deqLog, capLog, outcomes>>
  /\ UNCHANGED cycleVars
  /\ mainFrame

\* if not task_queue.empty(): ... else fall through to sleep(0.1)
Poll ==
  /\ mainpc = "poll"
  /\ IF queue # <<>>
     THEN mainpc' = "get" /\ mainTimer' = mainTimer
     ELSE mainpc' = "sleep" /\ mainTimer' = PollSleep
  /\ UNCHANGED <<queue, vib, deqLog, capLog, outcomes>>
  /\ UNCHANGED cycleVars
  /\ mainFrame

\* variant: the newest task is taken first
get_lifo(q) == [item |-> q[Len(q)], rest |-> SubSeq(q, 1, Len(q) - 1)]

\* Queue.get: take the head (waits while the queue is empty)
get(q) == [item |-> Head(q), rest |-> Tail(q)]

\* task = task_queue.get(); if task == "capture": ...
Get ==
  /\ mainpc = "get"
  /\ queue # <<>>
  /\ task' = get(queue).item
  /\ queue' = get(queue).rest
  /\ deqLog' = Append(deqLog, get(queue).item.press)
  /\ trace' = <<>>
  /\ spoken' = <<>>
  /\ IF get(queue).item.kind = "capture"
     THEN mainpc' = "capture" /\ mainTimer' = mainTimer
     ELSE mainpc' = "sleep" /\ mainTimer' = PollSleep
  /\ UNCHANGED <<vib, capLog, outcomes, description, image, data_url,
                 playing>>
  /\ mainFrame

\* capture_image: fswebcam exits with 0 and has written IMAGE_PATH
CaptureOk ==
  /\ mainpc = "capture"
  /\ capLog' = Append(capLog, task.press)
  /\ image' = task.press
  /\ trace' = Append(trace, Ev("capture_ok", 0))
  /\ mainpc' = "encode"
  /\ UNCHANGED <<queue, vib, mainTimer, deqLog, outcomes, task, description,
                 data_url,
                 spoken,
                 playing>>
  /\ mainFrame

\* variant: the exit status of fswebcam is not checked
CaptureFail_unchecked ==
  /\ mainpc = "capture"
  /\ capLog' = Append(capLog, task.press)
  /\ trace' = Append(trace, Ev("capture_fail", 0))
  /\ mainpc' = "encode"
  /\ UNCHANGED <<queue, vib, mainTimer, deqLog, outcomes, task, description,
                 image,
                 data_url, spoken,
                 playing>>
  /\ mainFrame

\* capture_image: subprocess.run(check=True) raises
CaptureFail ==
  /\ mainpc = "capture"
  /\ capLog' = Append(capLog, task.press)
  /\ trace' = Append(trace, Ev("capture_fail", 0))
  /\ mainpc' = "except"
  /\ UNCHANGED <<queue, vib, mainTimer, deqLog, outcomes, task, description,
                 image,
                 data_url, spoken,
                 playing>>
  /\ mainFrame

\* to_data_url: the file is read and encoded
EncodeOk ==
  /\ mainpc = "encode"
  /\ data_url' = image
  /\ trace' = Append(trace, Ev("encode_ok", 0))
  /\ mainpc' = "request"
  /\ UNCHANGED <<queue, vib, mainTimer, deqLog, capLog, outcomes, task,
                 description,
                 image, spoken,
                 playing>>
  /\ mainFrame

\* to_data_url: open or read raises
EncodeFail ==
  /\ mainpc = "encode"
  /\ trace' = Append(trace, Ev("encode_fail", 0))
  /\ mainpc' = "except"
  /\ UNCHANGED <<queue, vib, mainTimer, deqLog, capLog, outcomes, task,
                 description,
                 image, data_url, spoken,
                 playing>>
  /\ mainFrame

\* client.responses.create returns; description = extract_text(resp)
RequestOk ==
  /\ mainpc = "request"
  /\ \E resp \in Responses : description' = extract_text(resp)
  /\ trace' = trace \o <<Ev("request", 0), Ev("response", 0)>>
  /\ mainpc' = "succHigh"
  /\ UNCHANGED <<queue, vib, mainTimer, deqLog, capLog, outcomes, task, image,
                 data_url, spoken,
                 playing>>
  /\ mainFrame

\* variant: the error of the request is swallowed
RequestFail_swallowed ==
  /\ mainpc = "request"
  /\ trace' = trace \o <<Ev("request", 0), Ev("request_fail", 0)>>
  /\ mainpc' = "succHigh"
  /\ UNCHANGED <<queue, vib, mainTimer, deqLog, capLog, outcomes, task,
                 description,
                 image, data_url, spoken,
                 playing>>
  /\ mainFrame

\* client.responses.create raises
RequestFail ==
  /\ mainpc = "request"
  /\ trace' = trace \o <<Ev("request", 0), Ev("request_fail", 0)>>
  /\ mainpc' = "except"
  /\ UNCHANGED <<queue, vib, mainTimer, deqLog, capLog, outcomes, task,
                 description,
                 image, data_url, spoken,
                 playing>>
  /\ mainFrame

\* vibrate(0.5): GPIO.output(VibPin, GPIO.HIGH); sleep starts
SuccHigh ==
  /\ mainpc = "succHigh"
  /\ vib' = "HIGH"
  /\ mainTimer' = SuccessDur
  /\ trace' = Append(trace, Ev("high", SuccessDur))
  /\ mainpc' = "succSleep"
  /\ UNCHANGED <<queue, deqLog, capLog, outcomes, task, description, image,
                 data_url,
                 spoken,
                 playing>>
  /\ mainFrame

\* variant: the loop goes on before speak is called
SuccLow_skipSpeak ==
  /\ mainpc = "succSleep" /\ mainTimer = 0
  /\ vib' = "LOW"
  /\ trace' = Append(trace, Ev("low", SuccessDur))
  /\ mainpc' = "poll"
  /\ UNCHANGED <<queue, mainTimer, deqLog, capLog, outcomes, task,
                 description, image,
                 data_url, spoken,
                 playing>>
  /\ mainFrame

\* vibrate(0.5): sleep over; GPIO.output(VibPin, GPIO.LOW)
SuccLow ==
  /\ mainpc = "succSleep" /\ mainTimer = 0
  /\ vib' = "LOW"
  /\ trace' = Append(trace, Ev("low", SuccessDur))
  /\ mainpc' = "speak"
  /\ UNCHANGED <<queue, mainTimer, deqLog, capLog, outcomes, task,
                 description, image,
                 data_url, spoken,
                 playing>>
  /\ mainFrame

\* variant: subprocess.run instead of Popen: speak returns when the speech is over
SpeakOk_waits ==
  /\ mainpc = "speak"
  /\ spoken' = Append(spoken, SafeText(description))
  /\ playing' = playing
  /\ trace' = Append(trace, Ev("speak", 0))
  /\ mainpc' = "sleep"
  /\ mainTimer' = PollSleep
  /\ outcomes' = Append(outcomes, "success")
  /\ UNCHANGED <<queue, vib, deqLog, capLog, task, description, image,
                 data_url>>
  /\ mainFrame

\* speak(description): Popen has started espeak | aplay
SpeakOk ==
  /\ mainpc = "speak"
  /\ spoken' = Append(spoken, SafeText(description))
  /\ playing' = playing \cup {task.press}
  /\ trace' = Append(trace, Ev("speak", 0))
  /\ mainpc' = "sleep"
  /\ mainTimer' = PollSleep
  /\ outcomes' = Append(outcomes, "success")
  /\ UNCHANGED <<queue, vib, deqLog, capLog, task, description, image,
                 data_url>>
  /\ mainFrame

\* variant: speak has no try of its own, the error reaches process_tasks
SpeakFail_propagates ==
  /\ mainpc = "speak"
  /\ spoken' = Append(spoken, SafeText(description))
  /\ trace' = Append(trace, Ev("speak_fail", 0))
  /\ mainpc' = "except"
  /\ UNCHANGED <<mainTimer, outcomes>>
  /\ UNCHANGED <<queue, vib, deqLog, capLog, task, description, image,
                 data_url, playing>>
  /\ mainFrame

\* speak(description): Popen raises; caught and printed inside speak
SpeakFail ==
  /\ mainpc = "speak"
  /\ spoken' = Append(spoken, SafeText(description))
  /\ trace' = Append(trace, Ev("speak_fail", 0))
  /\ mainpc' = "sleep"
  /\ mainTimer' = PollSleep
  /\ outcomes' = Append(outcomes, "speech_failed")
  /\ UNCHANGED <<queue, vib, deqLog, capLog, task, description, image,
                 data_url, playing>>
  /\ mainFrame

\* variant: the failed task is put back on the queue
Except_requeue ==
  /\ mainpc = "except"
  /\ queue' = put(queue, task)
  /\ vib' = "HIGH"
  /\ mainTimer' = FailDur
  /\ trace' = Append(trace, Ev("high", FailDur))
  /\ mainpc' = "failSleep"
  /\ UNCHANGED <<deqLog, capLog, outcomes, task, description, image, data_url,
                 spoken,
                 playing>>
  /\ mainFrame

\* except Exception: print; vibrate(1.0): GPIO.output(VibPin, GPIO.HIGH)
Except ==
  /\ mainpc = "except"
  /\ vib' = "HIGH"
  /\ mainTimer' = FailDur
  /\ trace' = Append(trace, Ev("high", FailDur))
  /\ mainpc' = "failSleep"
  /\ UNCHANGED <<queue, deqLog, capLog, outcomes, task, description, image,
                 data_url,
                 spoken,
                 playing>>
  /\ mainFrame

\* variant: the handler re-raises after the pulse
FailLow_reraise ==
  /\ mainpc = "failSleep" /\ mainTimer = 0
  /\ vib' = "LOW"
  /\ trace' = Append(trace, Ev("low", FailDur))
  /\ mainpc' = "crashed"
  /\ mainTimer' = PollSleep
  /\ outcomes' = Append(outcomes, "failed")
  /\ UNCHANGED <<queue, deqLog, capLog, task, description, image, data_url,
                 spoken,
                 playing>>
  /\ mainFrame

\* vibrate(1.0): sleep over; GPIO.output(VibPin, GPIO.LOW); handler ends
FailLow ==
  /\ mainpc = "failSleep" /\ mainTimer = 0
  /\ vib' = "LOW"
  /\ trace' = Append(trace, Ev("low", FailDur))
  /\ mainpc' = "sleep"
  /\ mainTimer' = PollSleep
  /\ outcomes' = Append(outcomes, "failed")
  /\ UNCHANGED <<queue, deqLog, capLog, task, description, image, data_url,
                 spoken,
                 playing>>
  /\ mainFrame

\* the shell started by Popen ends: the speech has been played
SpeechEnds ==
  /\ running
  /\ \E p \in playing : playing' = playing \ {p}
  /\ UNCHANGED <<queue, vib, released, mainpc, mainTimer, intr, enqLog,
                 deqLog, capLog, outcomes, task, description, image,
                 data_url, trace, spoken>>
  /\ UNCHANGED cbVars
  /\ UNCHANGED histEdge

\* sleep(0.1) is over; back to the head of the while loop
Sleep ==
  /\ mainpc = "sleep" /\ mainTimer = 0
  /\ mainpc' = "poll"
  /\ UNCHANGED <<queue, vib, mainTimer, deqLog, capLog, outcomes>>
  /\ UNCHANGED cycleVars
  /\ mainFrame

\* ------------------------------------------------------------- shutdown
\* variant: a bare except in process_tasks catches the interrupt
InterruptTarget_caught(pc) == IF pc \in TryStates THEN "except" ELSE "destroy"

\* where a KeyboardInterrupt raised at position pc is handled: except
\* Exception does not catch it, the handler of __main__ does
InterruptTarget(pc) == "destroy"

\* Ctrl+C while process_tasks runs
Interrupt ==
  /\ ~intr
  /\ mainpc \in LoopStates
  /\ intr' = TRUE
  /\ mainpc' = InterruptTarget(mainpc)
  /\ mainTimer' = 0
  /\ UNCHANGED <<queue, vib, released, deqLog, capLog, outcomes, enqLog>>
  /\ UNCHANGED cbVars
  /\ UNCHANGED histEdge
  /\ UNCHANGED cycleVars

\* destroy: GPIO.output(VibPin, GPIO.LOW)
Destroy ==
  /\ mainpc = "destroy"
  /\ vib' = "LOW"
  /\ mainpc' = "cleanup"
  /\ UNCHANGED <<queue, mainTimer, deqLog, capLog, outcomes>>
  /\ UNCHANGED cycleVars
  /\ mainFrame

\* destroy: GPIO.cleanup() turns the used pins back into inputs; the main
\* thread then ends and the process exits
Cleanup ==
  /\ mainpc = "cleanup"
  /\ released' = TRUE
  /\ vib' = "LOW"
  /\ mainpc' = "exited"
  /\ UNCHANGED <<queue, mainTimer, deqLog, capLog, outcomes, cbpc, cbTimer,
                 cbPress,
                 sinceAccept, intr, nEdges, sinceEdge, allSpaced, ignored,
                 enqLog>>
  /\ UNCHANGED cycleVars

Next ==
  \/ Tick \/ EdgeAccepted \/ EdgeIgnored
  \/ CbHigh \/ CbLow \/ CbPut
  \/ Poll \/ Get
  \/ CaptureOk \/ CaptureFail \/ EncodeOk \/ EncodeFail
  \/ RequestOk \/ RequestFail
  \/ SuccHigh \/ SuccLow \/ SpeakOk \/ SpeakFail \/ SpeechEnds
  \/ Except \/ FailLow \/ Sleep
  \/ Interrupt \/ Destroy \/ Cleanup

Spec == Init /\ [][Next]_vars

\* the steps of the consumer loop and of the callback
MainStep ==
  \/ Poll \/ Get
  \/ CaptureOk \/ CaptureFail \/ EncodeOk \/ EncodeFail
  \/ RequestOk \/ RequestFail
  \/ SuccHigh \/ SuccLow \/ SpeakOk \/ SpeakFail
  \/ Except \/ FailLow \/ Sleep

CbStep == CbHigh \/ CbLow \/ CbPut

\* the program as long as no interrupt is delivered
NextRunning ==
  \/ Tick \/ EdgeAccepted \/ EdgeIgnored
  \/ CbStep \/ MainStep \/ SpeechEnds

\* the consumer loop keeps running: both threads keep being scheduled,
\* every call returns or raises, and time passes
FairSpec ==
  /\ Init /\ [][NextRunning]_vars
  /\ WF_vars(Tick)
  /\ WF_vars(MainStep)
  /\ WF_vars(CbStep)

TypeOK ==
  /\ vib \in {"LOW", "HIGH"}
  /\ released \in BOOLEAN
  /\ cbpc \in {"idle", "ackHigh", "ackSleep", "put"}
  /\ cbTimer \in 0..AckDur
  /\ mainpc \in LoopStates \cup {"destroy", "cleanup", "exited", "crashed"}
  /\ mainTimer \in 0..FailDur
  /\ sinceAccept \in 0..BounceTime
  /\ nEdges \in 0..MaxPresses
  /\ Len(queue) <= MaxPresses

\* =============================================================== claims
IsPrefix(a, b) == Len(a) <= Len(b) /\ SubSeq(b, 1, Len(a)) = a
NoDup(q) == \A i, j \in 1..Len(q) : q[i] = q[j] => i = j
Has(e) == \E i \in 1..Len(trace) : trace[i].ev = e
HasEv(r) == \E i \in 1..Len(trace) : trace[i] = r
IsQuote(c) == c \in {DQ, SQ}
StripQuotes(text) == SelectSeq(text, LAMBDA c : ~IsQuote(c))
\* the consumer is between two cycles
CycleOver == mainpc \in {"sleep", "poll", "get"}
\* presses whose callback has not yet put its task
InFlight == IF cbpc = "idle" THEN 0 ELSE 1
CbInPulse == cbpc = "ackSleep"
MainInPulse == mainpc \in {"succSleep", "failSleep"}

\* C1: the tasks are dequeued in the order they were enqueued, the queue
\* holds exactly the tasks enqueued and not yet dequeued, in that order,
\* and when every press came at least 500 ms after the previous one no
\* press is dropped: the n-th press enqueues the n-th task.
C1_FifoPressOrder ==
  /\ IsPrefix(deqLog, enqLog)
  /\ queue = [i \in 1..(Len(enqLog) - Len(deqLog)) |->
                CaptureTask(enqLog[Len(deqLog) + i])]
  /\ allSpaced => /\ ignored = {}
                  /\ enqLog = [i \in 1..(nEdges - InFlight) |-> i]

C1_Witness ==
  /\ allSpaced
  /\ Len(queue) >= 2
  /\ deqLog = <<1>>
  /\ mainpc = "request"

\* C2: an edge that comes less than 500 ms after the last accepted edge
\* starts no callback: the actuator, the callback thread and the queue are
\* left as they were, and no dropped press ever has a task.
C2_Debounce ==
  [][(nEdges' = nEdges + 1 /\ sinceAccept < BounceTime) =>
       /\ UNCHANGED <<cbpc, cbTimer, cbPress, vib, queue, enqLog, sinceAccept>>
       /\ (nEdges + 1) \in ignored'
       /\ \A i \in 1..Len(enqLog') : enqLog'[i] \notin ignored']_vars

C2_Witness ==
  /\ ignored = {2}
  /\ enqLog = <<1, 3>>

\* C3: in a cycle whose capture failed nothing is encoded or requested, no
\* success pulse is started and speak is not called; when the cycle is
\* over it consisted of the failed capture and the 1.0 s pulse.
C3_CaptureFailure ==
  Has("capture_fail") =>
    /\ ~Has("encode_ok") /\ ~Has("request")
    /\ ~HasEv(Ev("high", SuccessDur))
    /\ spoken = <<>>
    /\ CycleOver => trace = <<Ev("capture_fail", 0), Ev("high", FailDur),
                              Ev("low", FailDur)>>

C3_Witness ==
  /\ Has("capture_fail")
  /\ HasEv(Ev("low", FailDur))
  /\ mainpc = "sleep"

\* C4: in a cycle whose capture succeeded and whose encoding or request
\* failed, no success pulse is started and speak is not called; when the
\* cycle is over it ended with the 1.0 s pulse.
C4_AnalysisFailure ==
  (Has("capture_ok") /\ (Has("encode_fail") \/ Has("request_fail"))) =>
    /\ ~HasEv(Ev("high", SuccessDur))
    /\ spoken = <<>>
    /\ CycleOver => /\ trace[Len(trace) - 1] = Ev("high", FailDur)
                    /\ trace[Len(trace)] = Ev("low", FailDur)
                    /\ Len(outcomes) > 0
                    /\ outcomes[Len(outcomes)] = "failed"

C4_Witness ==
  /\ Has("capture_ok")
  /\ Has("request_fail")
  /\ HasEv(Ev("low", FailDur))
  /\ mainpc = "sleep"

\* C5: speak is called only after the 0.5 s pulse of the cycle went high and
\* low again, a cycle with a successful capture and analysis calls it once,
\* and the text of the command is the description without " and '.
C5_PulseThenSpeech ==
  /\ \A i \in 1..Len(spoken) : spoken[i] = StripQuotes(description)
  /\ spoken # <<>> =>
       /\ Len(trace) = 7
       /\ trace[4] = Ev("response", 0)
       /\ trace[5] = Ev("high", SuccessDur)
       /\ trace[6] = Ev("low", SuccessDur)
       /\ trace[7].ev \in {"speak", "speak_fail"}
  /\ (Has("response") /\ CycleOver) => Len(spoken) = 1

C5_Witness ==
  /\ description = S_quoted
  /\ spoken = << <<"A", "b">> >>
  /\ mainpc = "sleep"

\* C6: without an interrupt the consumer never leaves its loop; the end of
\* the failure handler and the end of speak, failed or not, lead to the
\* sleep at the foot of the loop, and the handler leaves the pin low.
C6_LoopSurvives ==
  /\ [](~intr => mainpc \in LoopStates)
  /\ [][(mainpc = "failSleep" /\ mainpc' # "failSleep" /\ ~intr') =>
          (mainpc' = "sleep" /\ vib' = "LOW")]_vars
  /\ [][(mainpc = "speak" /\ mainpc' # "speak" /\ ~intr') =>
          mainpc' = "sleep"]_vars

C6_Witness ==
  /\ Len(outcomes) = 1
  /\ outcomes[1] = "failed"
  /\ Len(deqLog) = 2
  /\ mainpc = "encode"

\* C7: once the interrupt is delivered the main thread is in destroy or has
\* exited, never back in the loop, and at exit the pin is low and the pins
\* are released.
C7_Shutdown ==
  /\ intr => mainpc \in {"destroy", "cleanup", "exited"}
  /\ mainpc = "exited" => (intr /\ vib = "LOW" /\ released)

C7_Witness ==
  /\ mainpc = "exited"
  /\ CbInPulse

\* C8: the callback and the consumer are never both between the HIGH and
\* the LOW write of vibrate.
C8_NoOverlap == ~(CbInPulse /\ MainInPulse)

\* C9: no press is dequeued twice, capture is attempted once for each
\* dequeued task (the last one may still be waiting for its attempt), and
\* only the callback's put makes the queue grow.
C9_ConsumedOnce ==
  /\ [](/\ NoDup(deqLog)
        /\ IsPrefix(capLog, deqLog)
        /\ Len(deqLog) <= Len(capLog) + 1
        /\ (mainpc \in LoopStates \ {"capture"} => capLog = deqLog))
  /\ [][Len(queue') > Len(queue) => (cbpc = "put" /\ cbpc' = "idle")]_vars

C9_Witness ==
  /\ outcomes = <<"failed", "success">>
  /\ capLog = <<1, 2>>
  /\ queue = <<>>

\* C10: a task is dequeued only when every task dequeued before has finished
\* its cycle, and the image a cycle encodes and sends is the one its own
\* capture wrote.
C10_OneAtATime ==
  /\ [][deqLog' # deqLog => Len(outcomes) = Len(deqLog)]_vars
  /\ [](mainpc = "encode" => image = task.press)
  /\ [](mainpc = "request" => data_url = task.press)

C10_Witness ==
  /\ Len(deqLog) = 2
  /\ mainpc = "request"
  /\ queue # <<>>

HighsOf(d) == {i \in 1..Len(trace) : trace[i] = Ev("high", d)}
Highs == {i \in 1..Len(trace) : trace[i].ev = "high"}
Lows == {i \in 1..Len(trace) : trace[i].ev = "low"}

\* C11: a cycle never starts a second pulse; a finished cycle has exactly
\* one pulse, the 0.5 s one exactly when capture and the analysis call both
\* returned and the 1.0 s one otherwise; a failed launch of the speech adds
\* no 1.0 s pulse.
C11_OneOutcomePulse ==
  /\ Cardinality(Highs) <= 1
  /\ Has("speak_fail") => HighsOf(FailDur) = {}
  /\ (CycleOver /\ trace # <<>>) =>
       /\ Cardinality(Highs) = 1
       /\ Cardinality(Lows) = 1
       /\ HighsOf(SuccessDur) # {} <=> (Has("capture_ok") /\ Has("response"))
       /\ HighsOf(FailDur) # {} <=> ~(Has("capture_ok") /\ Has("response"))

C11_Witness ==
  /\ Has("speak_fail")
  /\ HighsOf(SuccessDur) # {}
  /\ mainpc = "sleep"

\* C12: a cycle whose response carried no text (empty or blank) starts no
\* success pulse and does not call speak.
C12_EmptyIsFailure ==
  (Has("response") /\ description = <<>>) =>
    /\ HighsOf(SuccessDur) = {}
    /\ spoken = <<>>

\* C13: when speak returns after a successful launch the speech process of
\* the task is still running and the consumer is at the sleep at the foot
\* of the loop.
C13_FireAndForget ==
  [][(mainpc = "speak" /\ mainpc' = "sleep"
        /\ trace'[Len(trace')] = Ev("speak", 0)) =>
       (task.press \in playing' /\ mainTimer' = PollSleep)]_vars

C13_Witness ==
  /\ deqLog = <<1, 2>>
  /\ mainpc = "encode"
  /\ 1 \in playing

\* C14: a step of the callback thread touches nothing of the cycle (capture
\* log, image, data URL, description, speech, current task, dequeue log)
\* and never moves the main thread; its put is always possible.
C14_CallbackOnlyAcksAndPuts ==
  /\ [][cbpc' # cbpc =>
          UNCHANGED <<capLog, image, data_url, description, trace, spoken,
                      playing, task, deqLog, mainpc, mainTimer>>]_vars
  /\ []((cbpc = "put" /\ running) => ENABLED CbPut)

C14_Witness ==
  /\ cbpc = "put"
  /\ mainpc = "request"
  /\ queue # <<>>

Enqueued(i) == \E k \in 1..Len(enqLog) : enqLog[k] = i
\* the cycle of press i is over: its pulse is done and the loop is back at
\* its foot
CycleDone(i) == \E k \in 1..Len(deqLog) : deqLog[k] = i /\ Len(outcomes) >= k

\* C15: while the loop keeps running, every task that was put is eventually
\* dequeued and its cycle eventually ends.
C15_NoTaskLost ==
  \A i \in 1..MaxPresses : Enqueued(i) ~> CycleDone(i)

C15_Witness ==
  /\ Len(enqLog) = 3
  /\ Len(outcomes) = 2
  /\ mainpc = "failSleep"

AckRunning(p) == cbPress = p /\ cbpc \in {"ackHigh", "ackSleep"}

\* C16: a task is put only by a callback that has finished its pulse, which
\* lasted its 0.2 s and ended with the pin written low; every accepted
\* press is put once, no dropped press is put, and the consumer never works
\* on a press whose acknowledgment pulse is still running.
C16_AckThenPut ==
  /\ [](/\ NoDup(enqLog)
        /\ \A k \in 1..Len(enqLog) :
             enqLog[k] \notin ignored /\ ~AckRunning(enqLog[k])
        /\ (mainpc \in TryStates \cup {"except", "failSleep"}) =>
             ~AckRunning(task.press))
  /\ [][enqLog' # enqLog =>
          /\ cbpc = "put"
          /\ enqLog' = Append(enqLog, cbPress)
          /\ queue' = Append(queue, CaptureTask(cbPress))]_vars
  /\ [][(cbpc = "ackSleep" /\ cbpc' # "ackSleep") =>
          (cbTimer = 0 /\ vib' = "LOW" /\ cbpc' = "put")]_vars

C16_Witness ==
  /\ enqLog = <<1, 2>>
  /\ cbPress = 2
  /\ cbpc = "idle"
  /\ task.press = 2
  /\ mainpc = "capture"

\* C17 as stated: whenever neither thread is inside vibrate the pin is low.
C17_LowOutsideVibrate == (~CbInPulse /\ ~MainInPulse) => vib = "LOW"

\* C17 amended: whenever neither thread is inside vibrate, and the main
\* thread is not between an interrupt and the LOW write of destroy, the pin
\* is low.
C17_LowOutsideVibrateOrShutdown ==
  (~CbInPulse /\ ~MainInPulse /\ mainpc # "destroy") => vib = "LOW"

C17_Witness ==
  /\ cbpc = "put"
  /\ mainpc = "speak"
  /\ vib = "LOW"
  /\ mainTimer = 0
  /\ cbPress = 2

\* C18: whenever the consumer is at task_queue.get() the queue holds a
\* task, so the get returns at once.
C18_GetNeverBlocks == mainpc = "get" => (queue # <<>> /\ ENABLED Get)

C18_Witness ==
  /\ mainpc = "get"
  /\ cbpc = "put"
  /\ Len(queue) = 1

====
